---- MODULE Spec2Model ----
(***************************************************************************)
(* A model of alert_timeframe_checker.py: main() validates a time-frames   *)
(* string with a regular expression, parses it into a weekday -> intervals *)
(* table, samples the clock, and prints "Now" or the next valid date-time. *)
(*                                                                         *)
(* Strings are sequences of one-character strings.  A time of day is the   *)
(* number of seconds since midnight (datetime.time compares as the tuple   *)
(* hour, minute, second).  A date is its proleptic Gregorian ordinal       *)
(* (date.toordinal()), so that isoweekday() is ordinal % 7, with 0 read    *)
(* as 7.                                                                   *)
(***************************************************************************)
EXTENDS Integers, Sequences, FiniteSets, TLC

VARIABLES
    pc,                 \* where main() is
    argv,               \* args['time_frames']
    time_frames_match,  \* result of valid_time_frames_string (TRUE: a match)
    segments,           \* raw_time_frames.split('&')
    seg_i,              \* index of the segment the for loop is at
    frame,              \* start_day, end_day, start_time, end_time of the segment
    day_index,          \* the while loop's day_index
    walked,             \* iterations of the while loop for this segment
    time_frames,        \* the defaultdict(list) built by parse_time_frames
    now,                \* datetime.datetime.now(): [date, time]
    output,             \* what main prints
    calls               \* the functions main has called, in order

vars == <<pc, argv, time_frames_match, segments, seg_i, frame, day_index,
          walked, time_frames, now, output, calls>>

----------------------------------------------------------------------------
(* Bounds of the model.                                                    *)

\* Longest time-frames string given, in segments.
MaxSegments == 2

\* Iterations of the day-range while loop followed for one segment.
MaxWalk == 8

----------------------------------------------------------------------------
(* Characters and small conversions.                                       *)

Digits == <<"0", "1", "2", "3", "4", "5", "6", "7", "8", "9">>

AsciiDigit == {Digits[i] : i \in 1..10}

\* A decimal digit outside ASCII (ARABIC-INDIC DIGIT THREE), as one character.
ArabicThree == "U+0663"

\* What \d matches in a str pattern: every Unicode decimal digit.
UnicodeDigit == AsciiDigit \cup {ArabicThree}

DigitChar(n) == Digits[n + 1]

DigitVal(c) == CHOOSE n \in 0..9 : Digits[n + 1] = c

WEEK_DAYS == << <<"S", "u", "n">>, <<"M", "o", "n">>, <<"T", "u", "e">>,
                <<"W", "e", "d">>, <<"T", "h", "u">>, <<"F", "r", "i">>,
                <<"S", "a", "t">> >>

\* s[i..j], empty when the range is.
Slice(s, i, j) == IF i > j THEN << >> ELSE SubSeq(s, i, j)

\* str.split(sep) for a one-character separator: always at least one part.
RECURSIVE Split(_, _)
Split(s, sep) ==
    IF \E p \in 1..Len(s) : s[p] = sep
    THEN LET p == CHOOSE q \in 1..Len(s) :
                     s[q] = sep /\ \A r \in 1..(q - 1) : s[r] # sep
         IN  <<Slice(s, 1, p - 1)>> \o Split(Slice(s, p + 1, Len(s)), sep)
    ELSE <<s>>

----------------------------------------------------------------------------
(* The documented format of the time-frames argument.                      *)

\* time: a zero-padded 24-hour clock time HH:mm.
GrammarTime(t) ==
    /\ Len(t) = 5
    /\ t[3] = ":"
    /\ \A i \in {1, 2, 4, 5} : t[i] \in AsciiDigit
    /\ 10 * DigitVal(t[1]) + DigitVal(t[2]) \in 0..23
    /\ 10 * DigitVal(t[4]) + DigitVal(t[5]) \in 0..59

\* Day: a 3-letter weekday.
GrammarDay(d) == \E k \in 1..7 : d = WEEK_DAYS[k]

\* <Day>[-Day]
GrammarDays(x) ==
    \/ GrammarDay(x)
    \/ /\ Len(x) = 7
       /\ x[4] = "-"
       /\ GrammarDay(SubSeq(x, 1, 3))
       /\ GrammarDay(SubSeq(x, 5, 7))

\* <time>-<time>
GrammarTimes(x) ==
    /\ Len(x) = 11
    /\ x[6] = "-"
    /\ GrammarTime(SubSeq(x, 1, 5))
    /\ GrammarTime(SubSeq(x, 7, 11))

\* <Day>[-Day]@<time>-<time>
GrammarSegment(x) ==
    \E p \in 1..Len(x) :
        /\ x[p] = "@"
        /\ GrammarDays(Slice(x, 1, p - 1))
        /\ GrammarTimes(Slice(x, p + 1, Len(x)))

\* One or more segments separated by ampersand.
RECURSIVE GrammarSpec(_)
GrammarSpec(s) ==
    \/ GrammarSegment(s)
    \/ \E p \in 1..Len(s) :
        /\ s[p] = "&"
        /\ GrammarSegment(Slice(s, 1, p - 1))
        /\ GrammarSpec(Slice(s, p + 1, Len(s)))

----------------------------------------------------------------------------
(* valid_time_frames_string: the regular expression, as the set of         *)
(* positions each sub-pattern can end at when tried at position i.         *)

\* A literal.
Lit(s, i, lit) ==
    IF i + Len(lit) - 1 <= Len(s) /\ Slice(s, i, i + Len(lit) - 1) = lit
    THEN {i + Len(lit)}
    ELSE {}

\* One character of a class.
Class(s, i, class) == IF i <= Len(s) /\ s[i] \in class THEN {i + 1} ELSE {}

\* (?:[01]\d|2[0-3]):[0-5]\d
time_pattern(s, i) ==
    LET hour == {k \in Class(s, i, {"0", "1"}) : Class(s, k, UnicodeDigit) # {}}
                \cup {k \in Class(s, i, {"2"}) :
                          Class(s, k, {"0", "1", "2", "3"}) # {}}
    IN  UNION {
          UNION {
            UNION { Class(s, m, UnicodeDigit)
                    : m \in Class(s, c, {"0", "1", "2", "3", "4", "5"}) }
            : c \in Lit(s, k + 1, <<":">>) }
          : k \in hour }

\* (?:Sun|Mon|Tue|Wed|Thu|Fri|Sat)
one_of_all_days(s, i) == UNION {Lit(s, i, WEEK_DAYS[k]) : k \in 1..7}

\* one_of_all_days(?:-one_of_all_days)?
days_optional_range(s, i) ==
    LET first == one_of_all_days(s, i)
    IN  first \cup
        UNION { UNION {one_of_all_days(s, d) : d \in Lit(s, j, <<"-">>)}
                : j \in first }

\* (days_optional_range@time_pattern-time_pattern)
time_frame_segment(s, i) ==
    UNION {
      UNION {
        UNION {
          UNION { time_pattern(s, d) : d \in Lit(s, t, <<"-">>) }
          : t \in time_pattern(s, a) }
        : a \in Lit(s, j, <<"@">>) }
      : j \in days_optional_range(s, i) }

\* $ without re.MULTILINE: the end, or just before a newline that ends the string.
EndAnchor(s, i) == i = Len(s) + 1 \/ (i = Len(s) /\ s[i] = "\n")

\* (?:&time_frame_segment)*$
RECURSIVE MoreSegments(_, _)
MoreSegments(s, i) ==
    \/ EndAnchor(s, i)
    \/ \E a \in Lit(s, i, <<"&">>) :
           \E j \in time_frame_segment(s, a) : MoreSegments(s, j)

\* ^time_frame_segment(?:&time_frame_segment)*$ under re.search: ^ is position 1.
valid_time_frames_string(time_frames_str) ==
    \E j \in time_frame_segment(time_frames_str, 1) :
        MoreSegments(time_frames_str, j)

----------------------------------------------------------------------------
(* parse_time_frames, step by step.                                        *)

\* WEEK_DAYS.index(token): the index, or -1 where index() raises ValueError.
WeekDayIndex(token) ==
    IF \E k \in 1..7 : WEEK_DAYS[k] = token
    THEN (CHOOSE k \in 1..7 : WEEK_DAYS[k] = token) - 1
    ELSE -1

\* datetime.time.fromisoformat on the strings the validator lets through (five
\* characters, HH:MM with \d digits, perhaps followed by a newline): the time in
\* seconds, or -1 where it raises ValueError (a character that is no ASCII
\* digit, text after the minutes).
fromisoformat(t) ==
    IF /\ Len(t) = 5
       /\ t[3] = ":"
       /\ \A i \in {1, 2, 4, 5} : t[i] \in AsciiDigit
       /\ 10 * DigitVal(t[1]) + DigitVal(t[2]) < 24
       /\ 10 * DigitVal(t[4]) + DigitVal(t[5]) < 60
    THEN (10 * DigitVal(t[1]) + DigitVal(t[2])) * 3600
         + (10 * DigitVal(t[4]) + DigitVal(t[5])) * 60
    ELSE -1

\* The segment's start_day, end_day, start_time, end_time (lines 163-167); a
\* field of -1, or parts # 2, is a ValueError.
SegmentFrame(segment) ==
    LET parts == Split(segment, "@")
    IN  IF Len(parts) # 2
        THEN [parts |-> Len(parts), start_day |-> -1, end_day |-> -1,
              start_time |-> -1, end_time |-> -1]
        ELSE LET days_range == Split(parts[1], "-")
                 times_range == Split(parts[2], "-")
             IN  [parts |-> 2,
                  start_day |-> WeekDayIndex(days_range[1]),
                  end_day |-> WeekDayIndex(days_range[Len(days_range)]),
                  start_time |-> fromisoformat(times_range[1]),
                  end_time |-> fromisoformat(times_range[Len(times_range)])]

SegmentRaises(f) ==
    \/ f.parts # 2
    \/ f.start_day = -1
    \/ f.end_day = -1
    \/ f.start_time = -1
    \/ f.end_time = -1

\* The while condition of the day-range walk.
WalkCondition(start_day, end_day, index) ==
    \/ (start_day <= end_day /\ start_day <= index /\ index <= end_day)
    \/ (start_day > end_day /\ (start_day <= index \/ index <= end_day))

\* day_index + 1 if day_index < 6 else 0
NextDayIndex(index) == IF index < 6 THEN index + 1 ELSE 0

\* AppendFrame, were the interval inserted at the head of the day's list.
AppendFrame_AtHead(frames, day, interval) ==
    [d \in DOMAIN frames \cup {day} |->
        IF d = day
        THEN (IF d \in DOMAIN frames THEN <<interval>> \o frames[d]
              ELSE <<interval>>)
        ELSE frames[d]]

\* time_frames[day].append(interval) on a defaultdict(list).
AppendFrame(frames, day, interval) ==
    [d \in DOMAIN frames \cup {day} |->
        IF d = day
        THEN (IF d \in DOMAIN frames THEN Append(frames[d], interval)
              ELSE <<interval>>)
        ELSE frames[d]]

----------------------------------------------------------------------------
(* within_time_frames and next_valid_date_time.                            *)

\* AnyFrameHolds, were the end of an interval excluded.
RECURSIVE AnyFrameHolds_EndExcluded(_, _, _)
AnyFrameHolds_EndExcluded(day_frames, the_time, i) ==
    IF i > Len(day_frames) THEN FALSE
    ELSE IF day_frames[i][1] <= the_time /\ the_time < day_frames[i][2]
         THEN TRUE
         ELSE AnyFrameHolds_EndExcluded(day_frames, the_time, i + 1)

\* The for loop of within_time_frames from entry i on.
RECURSIVE AnyFrameHolds(_, _, _)
AnyFrameHolds(day_frames, the_time, i) ==
    IF i > Len(day_frames) THEN FALSE
    ELSE IF day_frames[i][1] <= the_time /\ the_time <= day_frames[i][2]
         THEN TRUE
         ELSE AnyFrameHolds(day_frames, the_time, i + 1)

within_time_frames(all_time_frames, day_of_week, the_time) ==
    IF day_of_week \notin DOMAIN all_time_frames
    THEN FALSE
    ELSE AnyFrameHolds(all_time_frames[day_of_week], the_time, 1)

\* range(8): day offsets 0..7 of the search.
SearchDays == 8

\* HH:MM of a time, as isoformat(timespec='minutes') writes it.
IsoMinutes(t) ==
    LET hour == t \div 3600
        minute == (t % 3600) \div 60
    IN  <<DigitChar(hour \div 10), DigitChar(hour % 10), ":",
          DigitChar(minute \div 10), DigitChar(minute % 10)>>

NoOutput == [kind |-> "", date |-> 0, hhmm |-> << >>]

NowOutput == [kind |-> "Now", date |-> 0, hhmm |-> << >>]

\* sys.exit('Failed to find any valid time for alert sending.')
SearchFailed == [kind |-> "exit", date |-> 0, hhmm |-> << >>]

\* FirstFrame, were an interval that has ended today not skipped.
FirstFrame_NoSkip(day_frames, next_days, cur_time, i) ==
    IF i > Len(day_frames) THEN 0 ELSE i

\* FirstFrame, were an ended interval skipped on every day of the search.
RECURSIVE FirstFrame_AnyDay(_, _, _, _)
FirstFrame_AnyDay(day_frames, next_days, cur_time, i) ==
    IF i > Len(day_frames) THEN 0
    ELSE IF day_frames[i][2] < cur_time
         THEN FirstFrame_AnyDay(day_frames, next_days, cur_time, i + 1)
         ELSE i

\* The inner for loop from entry i on: the first entry not skipped, or 0.
RECURSIVE FirstFrame(_, _, _, _)
FirstFrame(day_frames, next_days, cur_time, i) ==
    IF i > Len(day_frames) THEN 0
    ELSE IF next_days = 0 /\ day_frames[i][2] < cur_time
         THEN FirstFrame(day_frames, next_days, cur_time, i + 1)
         ELSE i

\* The outer for loop over range(days) from next_days on.
RECURSIVE SearchFrom(_, _, _, _, _, _)
SearchFrom(all_time_frames, cur_day_of_week, cur_time, now_date, next_days, days) ==
    IF next_days >= days THEN SearchFailed
    ELSE LET sum == cur_day_of_week + next_days
             index == IF sum > 6 THEN sum - 7 ELSE sum
         IN  IF index \notin DOMAIN all_time_frames
             THEN SearchFrom(all_time_frames, cur_day_of_week, cur_time,
                             now_date, next_days + 1, days)
             ELSE LET i == FirstFrame(all_time_frames[index], next_days, cur_time, 1)
                  IN  IF i = 0
                      THEN SearchFrom(all_time_frames, cur_day_of_week, cur_time,
                                      now_date, next_days + 1, days)
                      ELSE [kind |-> "YYYY-MM-DD HH:mm",
                            date |-> now_date + next_days,
                            hhmm |-> IsoMinutes(all_time_frames[index][i][1])]

\* next_valid_date_time, were the search over range(7).
next_valid_date_time_SevenDays(all_time_frames, cur_day_of_week, cur_time, now_datetime) ==
    SearchFrom(all_time_frames, cur_day_of_week, cur_time, now_datetime.date,
               0, SearchDays - 1)

next_valid_date_time(all_time_frames, cur_day_of_week, cur_time, now_datetime) ==
    SearchFrom(all_time_frames, cur_day_of_week, cur_time, now_datetime.date,
               0, SearchDays)

\* now.isoweekday(), with Sunday normalised from 7 to 0 (lines 84-86).
CurDayOfWeek(now_datetime) ==
    LET isoweekday == IF now_datetime.date % 7 = 0 THEN 7
                      ELSE now_datetime.date % 7
    IN  IF isoweekday = 7 THEN 0 ELSE isoweekday

\* now.time()
CurTime(now_datetime) == now_datetime.time

----------------------------------------------------------------------------
(* The time-frames strings given on the command line, and the clock.       *)

\* A segment before it is written out: weekday indices, and times as <<h, m>>.
Seg(days, from, to) == [days |-> days, from |-> from, to |-> to]

HHMM(t) == <<DigitChar(t[1] \div 10), DigitChar(t[1] % 10), ":",
             DigitChar(t[2] \div 10), DigitChar(t[2] % 10)>>

WriteDays(days) ==
    IF Len(days) = 1 THEN WEEK_DAYS[days[1] + 1]
    ELSE WEEK_DAYS[days[1] + 1] \o <<"-">> \o WEEK_DAYS[days[2] + 1]

WriteSegment(g) == WriteDays(g.days) \o <<"@">> \o HHMM(g.from) \o <<"-">> \o HHMM(g.to)

RECURSIVE WriteSpec(_)
WriteSpec(gs) ==
    IF Len(gs) = 1 THEN WriteSegment(gs[1])
    ELSE WriteSegment(gs[1]) \o <<"&">> \o WriteSpec(Tail(gs))

\* "<Day>@00:00-23:59" of the end-to-end test.
FullDay(d) == Seg(<<d>>, <<0, 0>>, <<23, 59>>)

\* The segments strings are made of: the tests' segments, the whole day of each
\* weekday, ranges over all seven days, and a range on one day whose times are
\* the other way round.
SegmentPool ==
    {FullDay(d) : d \in 0..6} \cup
    { Seg(<<0>>, <<9, 0>>, <<18, 0>>),
      Seg(<<1>>, <<18, 0>>, <<19, 30>>),
      Seg(<<0, 1>>, <<9, 0>>, <<15, 0>>),
      Seg(<<5, 0>>, <<10, 0>>, <<18, 0>>),
      Seg(<<0, 6>>, <<9, 0>>, <<18, 0>>),
      Seg(<<1, 0>>, <<9, 0>>, <<18, 0>>),
      Seg(<<2, 2>>, <<18, 0>>, <<9, 0>>),
      Seg(<<2, 4>>, <<9, 0>>, <<19, 30>>),
      Seg(<<5>>, <<10, 0>>, <<15, 0>>) }

SegmentLists == UNION {[1..n -> SegmentPool] : n \in 1..MaxSegments}

WellFormed == {WriteSpec(gs) : gs \in SegmentLists}

\* Strings one edit away from these are given too.
EditBases ==
    { WriteSpec(<<Seg(<<0>>, <<9, 0>>, <<18, 0>>)>>),
      WriteSpec(<<Seg(<<5, 0>>, <<10, 0>>, <<18, 0>>)>>),
      WriteSpec(<<Seg(<<0, 1>>, <<9, 0>>, <<15, 0>>), Seg(<<1>>, <<18, 0>>, <<19, 30>>)>>) }

EditChars == {"\n", " ", "&", "@", "-", ":", "0", "2", "4", "6", "9", "s", "X",
              ArabicThree}

Edits(s) ==
    {Slice(s, 1, p - 1) \o <<c>> \o Slice(s, p, Len(s)) :
        p \in 1..(Len(s) + 1), c \in EditChars}
    \cup {Slice(s, 1, p - 1) \o <<c>> \o Slice(s, p + 1, Len(s)) :
        p \in 1..Len(s), c \in EditChars}
    \cup {Slice(s, 1, p - 1) \o Slice(s, p + 1, Len(s)) : p \in 1..Len(s)}

Inputs == WellFormed \cup UNION {Edits(s) : s \in EditBases} \cup {<< >>}

\* 2019-11-03, a Sunday, as date.toordinal().
FirstDate == 737366

Dates == FirstDate..(FirstDate + 6)

\* Times of day the clock is read at, as <<hour, minute, second>>.
ClockTimes == { <<0, 0, 0>>, <<7, 7, 0>>, <<8, 59, 0>>, <<9, 0, 0>>,
                <<17, 17, 0>>, <<18, 0, 0>>, <<18, 1, 0>>, <<23, 45, 0>>,
                <<23, 59, 0>>, <<23, 59, 30>> }

Seconds(t) == t[1] * 3600 + t[2] * 60 + t[3]

----------------------------------------------------------------------------
(* main()                                                                  *)

NoFrame == [parts |-> 0, start_day |-> 0, end_day |-> 0,
            start_time |-> 0, end_time |-> 0]

NotRead == [date |-> 0, time |-> 0]

Init ==
    /\ pc = "main"
    /\ argv \in Inputs
    /\ time_frames_match = FALSE
    /\ segments = << >>
    /\ seg_i = 0
    /\ frame = NoFrame
    /\ day_index = 0
    /\ walked = 0
    /\ time_frames = << >>
    /\ now = NotRead
    /\ output = NoOutput
    /\ calls = << >>

\* Validate, were the sys.exit of line 69 missing.
Validate_NoExit ==
    /\ pc = "main"
    /\ time_frames_match' = valid_time_frames_string(argv)
    /\ calls' = Append(calls, "valid_time_frames_string")
    /\ pc' = "parse"
    /\ UNCHANGED <<argv, segments, seg_i, frame, day_index, walked,
                   time_frames, now, output>>

\* Lines 65-76: validate, and exit on a string that does not match.
Validate ==
    /\ pc = "main"
    /\ time_frames_match' = valid_time_frames_string(argv)
    /\ calls' = Append(calls, "valid_time_frames_string")
    /\ pc' = IF time_frames_match' THEN "parse" ELSE "exit_invalid"
    /\ UNCHANGED <<argv, segments, seg_i, frame, day_index, walked,
                   time_frames, now, output>>

\* Lines 78, 160-162: enter parse_time_frames and split on '&'.
ParseCall ==
    /\ pc = "parse"
    /\ calls' = Append(calls, "parse_time_frames")
    /\ time_frames' = << >>
    /\ segments' = Split(argv, "&")
    /\ seg_i' = 1
    /\ pc' = "segment"
    /\ UNCHANGED <<argv, time_frames_match, frame, day_index, walked, now, output>>

\* Lines 163-172: one segment's days and times; a ValueError is not caught.
ParseSegment ==
    /\ pc = "segment"
    /\ seg_i <= Len(segments)
    /\ LET f == SegmentFrame(segments[seg_i])
       IN  IF SegmentRaises(f)
           THEN /\ pc' = "ValueError"
                /\ UNCHANGED <<frame, day_index, walked>>
           ELSE /\ pc' = "walk"
                /\ frame' = f
                /\ day_index' = f.start_day
                /\ walked' = 0
    /\ UNCHANGED <<argv, time_frames_match, segments, seg_i, time_frames,
                   now, output, calls>>

\* Lines 173-176: one iteration of the while loop.
WalkStep ==
    /\ pc = "walk"
    /\ WalkCondition(frame.start_day, frame.end_day, day_index)
    /\ walked < MaxWalk
    /\ time_frames' = AppendFrame(time_frames, day_index,
                                  <<frame.start_time, frame.end_time>>)
    /\ day_index' = NextDayIndex(day_index)
    /\ walked' = walked + 1
    /\ UNCHANGED <<pc, argv, time_frames_match, segments, seg_i, frame,
                   now, output, calls>>

\* Line 173: the while condition is false; on to the next segment.
WalkEnd ==
    /\ pc = "walk"
    /\ ~WalkCondition(frame.start_day, frame.end_day, day_index)
    /\ seg_i' = seg_i + 1
    /\ pc' = "segment"
    /\ UNCHANGED <<argv, time_frames_match, segments, frame, day_index, walked,
                   time_frames, now, output, calls>>

\* Lines 178, 78: parse_time_frames returns dict(time_frames).
ParseReturn ==
    /\ pc = "segment"
    /\ seg_i > Len(segments)
    /\ pc' = "clock"
    /\ UNCHANGED <<argv, time_frames_match, segments, seg_i, frame, day_index,
                   walked, time_frames, now, output, calls>>

\* Lines 82-88: read the clock, once.
ReadClock ==
    /\ pc = "clock"
    /\ \E d \in Dates, t \in ClockTimes :
           now' = [date |-> d, time |-> Seconds(t)]
    /\ pc' = "check"
    /\ UNCHANGED <<argv, time_frames_match, segments, seg_i, frame, day_index,
                   walked, time_frames, output, calls>>

\* Lines 90-99: "Now", or the next valid date-time, printed.
Decide ==
    /\ pc = "check"
    /\ IF within_time_frames(time_frames, CurDayOfWeek(now), CurTime(now))
       THEN /\ output' = NowOutput
            /\ calls' = Append(calls, "within_time_frames")
            /\ pc' = "done"
       ELSE LET next == next_valid_date_time(time_frames, CurDayOfWeek(now),
                                             CurTime(now), now)
            IN  /\ calls' = calls \o <<"within_time_frames", "next_valid_date_time">>
                /\ IF next = SearchFailed
                   THEN pc' = "exit_failed" /\ output' = output
                   ELSE pc' = "done" /\ output' = next
    /\ UNCHANGED <<argv, time_frames_match, segments, seg_i, frame, day_index,
                   walked, time_frames, now>>

Next ==
    \/ Validate
    \/ ParseCall
    \/ ParseSegment
    \/ WalkStep
    \/ WalkEnd
    \/ ParseReturn
    \/ ReadClock
    \/ Decide

Spec == Init /\ [][Next]_vars

----------------------------------------------------------------------------
(* Properties.                                                             *)

Timestamp == "YYYY-MM-DD HH:mm"

\* main printed the next valid date-time.
Rescheduled == pc = "done" /\ output.kind = Timestamp

\* parse_time_frames has returned.
Parsed == pc \in {"clock", "check", "done", "exit_failed"}

\* A date and a time of day on one axis, in seconds since FirstDate.
Moment(date, time) == (date - FirstDate) * 86400 + time

\* The weekday index of a date, Sunday 0.
WeekDayOf(date) == date % 7

\* The start times of every interval of a schedule.
StartTimes(frames) ==
    UNION {{frames[d][i][1] : i \in 1..Len(frames[d])} : d \in DOMAIN frames}

\* C1: when now is outside the schedule, the date-time printed is the nearest
\* future valid one: no moment after now and before it is inside the schedule.
C1_NearestValid ==
    Rescheduled =>
        ~ \E d \in now.date..output.date :
            \E t \in StartTimes(time_frames) \cup {Seconds(c) : c \in ClockTimes} :
                /\ Moment(now.date, now.time) < Moment(d, t)
                /\ Moment(d, t) < Moment(output.date, fromisoformat(output.hhmm))
                /\ within_time_frames(time_frames, WeekDayOf(d), t)

\* C2: for a string of the grammar, parse_time_frames raises nothing and its
\* day-range walk makes at most one lap (seven iterations) for a segment.
C2_ParseReturns ==
    (pc # "main" /\ GrammarSpec(argv)) => (pc # "ValueError" /\ walked <= 7)

\* C3: when now is outside the schedule, the date-time printed is itself inside
\* the schedule.
C3_ResultWithin ==
    Rescheduled =>
        within_time_frames(time_frames, WeekDayOf(output.date),
                           fromisoformat(output.hhmm))

\* C4: the validator accepts a string if and only if the whole string is
\* derivable from the grammar.
C4_ValidatorIsGrammar ==
    pc # "main" => (time_frames_match <=> GrammarSpec(argv))

\* C5: with the spec "<weekday of now>@00:00-23:59" the run prints "Now",
\* whatever the time of day.
C5_TodayIsNow ==
    (pc \in {"done", "exit_failed"}
        /\ argv = WriteSpec(<<FullDay(CurDayOfWeek(now))>>))
    => output = NowOutput

\* The segments of a string of the grammar, in order.
RECURSIVE GrammarSegments(_)
GrammarSegments(s) ==
    IF GrammarSegment(s) THEN <<s>>
    ELSE LET p == CHOOSE q \in 1..Len(s) :
                     /\ s[q] = "&"
                     /\ GrammarSegment(Slice(s, 1, q - 1))
                     /\ GrammarSpec(Slice(s, q + 1, Len(s)))
         IN  <<Slice(s, 1, p - 1)>> \o GrammarSegments(Slice(s, p + 1, Len(s)))

\* What a segment of the grammar says: its first and last weekday and its
\* interval, read by position.
Meaning(x) ==
    LET at == CHOOSE p \in 1..Len(x) : x[p] = "@"
        Day(tok) == CHOOSE d \in 0..6 : WEEK_DAYS[d + 1] = tok
        TimeOfDay(t) == (10 * DigitVal(t[1]) + DigitVal(t[2])) * 3600
                        + (10 * DigitVal(t[4]) + DigitVal(t[5])) * 60
    IN  [startDay |-> Day(SubSeq(x, 1, 3)),
         endDay |-> Day(SubSeq(x, at - 3, at - 1)),
         interval |-> <<TimeOfDay(SubSeq(x, at + 1, at + 5)),
                        TimeOfDay(SubSeq(x, at + 7, at + 11))>>]

\* d is met walking forward from startDay, modulo 7, to endDay.
InDayRange(m, d) == (d - m.startDay + 7) % 7 <= (m.endDay - m.startDay + 7) % 7

\* The intervals of the segments from the i-th on whose day range contains d.
RECURSIVE IntervalsOn(_, _, _)
IntervalsOn(ms, d, i) ==
    IF i > Len(ms) THEN << >>
    ELSE (IF InDayRange(ms[i], d) THEN <<ms[i].interval>> ELSE << >>)
         \o IntervalsOn(ms, d, i + 1)

ExpectedSchedule(s) ==
    LET gs == GrammarSegments(s)
        ms == [i \in 1..Len(gs) |-> Meaning(gs[i])]
        covered == {d \in 0..6 : \E i \in 1..Len(ms) : InDayRange(ms[i], d)}
    IN  [d \in covered |-> IntervalsOn(ms, d, 1)]

\* C6: the schedule parse returns has, for each weekday, the intervals of the
\* segments whose day range contains it, one per segment, in input order, and
\* no entry for a weekday no segment covers.
C6_ScheduleIsExpansion ==
    (Parsed /\ GrammarSpec(argv)) => time_frames = ExpectedSchedule(argv)

\* A wrapping range and a single day that meet on Sunday have been parsed.
C6_Witness ==
    /\ pc = "clock"
    /\ argv = WriteSpec(<<Seg(<<5, 0>>, <<10, 0>>, <<18, 0>>),
                          Seg(<<0>>, <<9, 0>>, <<18, 0>>)>>)
    /\ DOMAIN time_frames = {0, 5, 6}
    /\ time_frames[0] = <<<<36000, 64800>>, <<32400, 64800>>>>

\* Some interval of the day holds the time, both ends included.
Inside(frames, day, time) ==
    /\ day \in DOMAIN frames
    /\ \E i \in 1..Len(frames[day]) :
           frames[day][i][1] <= time /\ time <= frames[day][i][2]

NineToSix == 0 :> <<<<9 * 3600, 18 * 3600>>>>

\* C7: within_time_frames is true exactly when the day is a key of the schedule
\* and one of its intervals holds the time, ends included; for (09:00, 18:00) it
\* is true at 09:00 and 18:00 and false at 08:59 and 18:01.
C7_WithinIffInside ==
    /\ pc = "check" =>
         \A d \in 0..6 :
             within_time_frames(time_frames, d, CurTime(now))
                 <=> Inside(time_frames, d, CurTime(now))
    /\ pc = "done" =>
         (output = NowOutput
             <=> Inside(time_frames, CurDayOfWeek(now), CurTime(now)))
    /\ (pc = "done" /\ time_frames = NineToSix /\ CurDayOfWeek(now) = 0) =>
         /\ CurTime(now) \in {Seconds(<<9, 0, 0>>), Seconds(<<18, 0, 0>>)}
                => output = NowOutput
         /\ CurTime(now) \in {Seconds(<<8, 59, 0>>), Seconds(<<18, 1, 0>>)}
                => output # NowOutput

\* Sunday 18:00 against Sunday 09:00-18:00 printed "Now".
C7_Witness ==
    /\ pc = "done"
    /\ time_frames = NineToSix
    /\ CurDayOfWeek(now) = 0
    /\ CurTime(now) = Seconds(<<18, 0, 0>>)
    /\ output = NowOutput

\* C8: the search of next_valid_date_time never runs out: with now outside a
\* schedule that is not empty, it returns a date-time and main never exits on
\* 'Failed to find any valid time'.
C8_SearchNeverFails ==
    /\ pc # "exit_failed"
    /\ (pc = "check"
          /\ ~within_time_frames(time_frames, CurDayOfWeek(now), CurTime(now)))
       => next_valid_date_time(time_frames, CurDayOfWeek(now), CurTime(now), now)
              # SearchFailed

\* The search went to its last offset: the answer is a week from today.
C8_Witness == Rescheduled /\ output.date = now.date + 7

\* C9: when the validator rejects the string, main exits before any other
\* function is called and prints nothing; something is printed only after the
\* string matched and parse_time_frames returned.
C9_AbortOnInvalid ==
    /\ (pc # "main" /\ ~time_frames_match) =>
           /\ pc = "exit_invalid"
           /\ calls = <<"valid_time_frames_string">>
           /\ output = NoOutput
    /\ output # NoOutput =>
           /\ time_frames_match
           /\ Len(calls) >= 3
           /\ calls[1] = "valid_time_frames_string"
           /\ calls[2] = "parse_time_frames"
           /\ seg_i > Len(segments)
           /\ pc = "done"

\* A string that is not empty was rejected.
C9_Witness == pc = "exit_invalid" /\ argv # << >> /\ output = NoOutput

C11_LaterWithinAWeek ==
    Rescheduled =>
        /\ Moment(now.date, now.time)
               < Moment(output.date, fromisoformat(output.hhmm))
        /\ output.date <= now.date + 7

\* Today's first interval starts after it ends, now is before both, and the
\* answer is later today.
C11_Witness ==
    /\ Rescheduled
    /\ CurDayOfWeek(now) \in DOMAIN time_frames
    /\ LET first == time_frames[CurDayOfWeek(now)][1]
       IN  /\ first[1] > first[2]
           /\ CurTime(now) < first[2]
    /\ output.date = now.date

====
